---- MODULE Spec2Model ----
\* OCR benchmark scoring engine (src/utils/algorithms.ts and the MetricDetails
\* revision of the same file kept in src/components/ResultsTable.tsx:115-279).
\*
\* A text is a sequence of one-character strings.  A word or a paragraph is a
\* text too.  A JavaScript number that results from a division is kept as an
\* exact fraction, or as NaN / +Infinity / -Infinity when the division has a
\* zero divisor, so that a division by zero is visible in the result.
EXTENDS Integers, Sequences, FiniteSets, TLC

VARIABLES
    a, b, c,        \* token sequences handed to levenshteinDistance
    lev,            \* the distances computed so far for (a,b), (b,a), (b,c), (a,c)
    truth, ocr,     \* the two texts of one file pair
    pc,             \* the next call to make
    cer,            \* result of calculateCER
    wer,            \* result of calculateWERWithDiff
    punc,           \* result of calculatePunctuationAccuracy
    paraF1,         \* result of calculateParagraphF1
    calls,          \* scorer invocations in progress: arguments, position, result
    frames,         \* the local variables of each invocation
    truthFiles,     \* App state: the uploaded ground-truth files
    ocrFiles,       \* App state: the uploaded OCR files
    results,        \* App state: the published analysis results
    isProcessing,   \* App state
    error,          \* App state: the error message, or Null
    run             \* the runAnalysis invocation: position, locals, pending read

appVars == <<truthFiles, ocrFiles, results, isProcessing, error, run>>

vars == <<a, b, c, lev, truth, ocr, pc, cer, wer, punc, paraF1, calls, frames, appVars>>

(***************************************************************************)
(* Bounds of the explored inputs.                                          *)
(***************************************************************************)
MaxTokLen == 3
MaxLen == 2
MaxWords == 4
MaxSelfLen == 5
MaxParas == 2
MaxFiles == 2
MaxRuns == 2

(***************************************************************************)
(* JavaScript numbers.  A number is [k, n, d, z]: kind "fin" with the      *)
(* exact fraction n/d in lowest terms, or "nan", or "inf" with the sign in *)
(* n.  z records that some division evaluated on the way to this value had *)
(* a zero divisor.                                                         *)
(***************************************************************************)
Abs(x) == IF x < 0 THEN -x ELSE x

Min2(x, y) == IF x <= y THEN x ELSE y

Max2(x, y) == IF x >= y THEN x ELSE y

RECURSIVE GCD(_, _)
GCD(x, y) == IF y = 0 THEN x ELSE GCD(y, x % y)

\* The fraction n/d (d # 0) in lowest terms with a positive denominator.
Frac(n, d) ==
    LET g == GCD(Abs(n), Abs(d))
        s == IF d < 0 THEN -1 ELSE 1
    IN  [k |-> "fin", n |-> (s * n) \div g, d |-> (s * d) \div g, z |-> FALSE]

Num(i) == [k |-> "fin", n |-> i, d |-> 1, z |-> FALSE]

NaN == [k |-> "nan", n |-> 0, d |-> 0, z |-> FALSE]

PosInf == [k |-> "inf", n |-> 1, d |-> 0, z |-> FALSE]

NegInf == [k |-> "inf", n |-> -1, d |-> 0, z |-> FALSE]

IsFinite(x) == x.k = "fin"

IsZero(x) == x.k = "fin" /\ x.n = 0

Sign(x) == IF x.n > 0 THEN 1 ELSE IF x.n < 0 THEN -1 ELSE 0

Tainted(v, z) == [v EXCEPT !.z = z]

\* x / y as JavaScript evaluates it: no exception, NaN or an infinity instead.
JsDiv(x, y) ==
    LET v == IF x.k = "nan" \/ y.k = "nan" THEN NaN
             ELSE IF x.k = "inf" /\ y.k = "inf" THEN NaN
             ELSE IF x.k = "inf" THEN (IF Sign(x) * Sign(y) < 0 THEN NegInf ELSE PosInf)
             ELSE IF y.k = "inf" THEN Num(0)
             ELSE IF y.n = 0
                  THEN (IF x.n = 0 THEN NaN ELSE IF x.n > 0 THEN PosInf ELSE NegInf)
             ELSE Frac(x.n * y.d, x.d * y.n)
    IN  Tainted(v, x.z \/ y.z \/ IsZero(y))

JsMul(x, y) ==
    LET v == IF x.k = "nan" \/ y.k = "nan" THEN NaN
             ELSE IF x.k = "inf" \/ y.k = "inf"
                  THEN (IF Sign(x) * Sign(y) = 0 THEN NaN
                        ELSE IF Sign(x) * Sign(y) < 0 THEN NegInf ELSE PosInf)
             ELSE Frac(x.n * y.n, x.d * y.d)
    IN  Tainted(v, x.z \/ y.z)

JsAdd(x, y) ==
    LET v == IF x.k = "nan" \/ y.k = "nan" THEN NaN
             ELSE IF x.k = "inf" /\ y.k = "inf" THEN (IF x.n = y.n THEN x ELSE NaN)
             ELSE IF x.k = "inf" THEN x
             ELSE IF y.k = "inf" THEN y
             ELSE Frac(x.n * y.d + y.n * x.d, x.d * y.d)
    IN  Tainted(v, x.z \/ y.z)

JsNeg(x) == [x EXCEPT !.n = -x.n]

JsSub(x, y) == JsAdd(x, JsNeg(y))

\* x === y on numbers; NaN equals nothing.
JsEq(x, y) == x.k # "nan" /\ y.k # "nan" /\ x.k = y.k /\ x.n = y.n /\ x.d = y.d

\* x < y; every comparison with NaN is false.
JsLT(x, y) ==
    IF x.k = "nan" \/ y.k = "nan" THEN FALSE
    ELSE IF x.k = "inf" THEN x.n < 0 /\ ~JsEq(x, y)
    ELSE IF y.k = "inf" THEN y.n > 0
    ELSE x.n * y.d < y.n * x.d

JsLE(x, y) == JsEq(x, y) \/ JsLT(x, y)

JsGT(x, y) == JsLT(y, x)

\* Math.max(x, y): NaN if either argument is NaN.
JsMax(x, y) ==
    LET v == IF x.k = "nan" \/ y.k = "nan" THEN NaN ELSE IF JsLT(x, y) THEN y ELSE x
    IN  Tainted(v, x.z \/ y.z)

(***************************************************************************)
(* levenshteinDistance: the (m+1) x (n+1) table, built row by row.         *)
(* Row i of the table is the sequence <<dp[i][0], ..., dp[i][n]>>.         *)
(***************************************************************************)
Min3(x, y, z) == Min2(Min2(x, y), z)

LevCostInverted(x, y) == IF x = y THEN 1 ELSE 0

\* const cost = a[i - 1] === b[j - 1] ? 0 : 1
LevCost(x, y) == IF x = y THEN 0 ELSE 1

LevFirstRowZero(n) == [j \in 1..(n + 1) |-> 0]

\* for (let j = 0; j <= n; j++) dp[0][j] = j
LevFirstRow(n) == [j \in 1..(n + 1) |-> j - 1]

LevCellNoInsertion(del, ins, sub) == Min2(del, sub)

\* Math.min(deletion, insertion, substitution)
LevCell(del, ins, sub) == Min3(del, ins, sub)

\* dp[i][1..n], left to right; row holds dp[i][0..j-1], prev is row i-1.
RECURSIVE LevFillRow(_, _, _, _, _)
LevFillRow(prev, row, ai, s, j) ==
    IF j > Len(s) THEN row
    ELSE LevFillRow(prev,
                    Append(row, LevCell(prev[j + 1] + 1,
                                        row[j] + 1,
                                        prev[j] + LevCost(ai, s[j]))),
                    ai, s, j + 1)

\* rows 1..m appended to the table; dp[i] starts as [i].
RECURSIVE LevFillTable(_, _, _, _)
LevFillTable(dp, s, t, i) ==
    IF i > Len(s) THEN dp
    ELSE LevFillTable(Append(dp, LevFillRow(dp[i], <<i>>, s[i], t, 1)), s, t, i + 1)

LevTable(s, t) == LevFillTable(<<LevFirstRow(Len(t))>>, s, t, 1)

\* return dp[m][n]
levenshteinDistance(s, t) == LevTable(s, t)[Len(s) + 1][Len(t) + 1]

(***************************************************************************)
(* Character classes and the text preparation of each scorer.              *)
(***************************************************************************)
\* the regular expression class \s (the characters that occur in the inputs)
IsWhitespace(ch) == ch \in {" ", "\t", "\n", "\r"}

\* the class [.,?!:;""''()-]
IsPunctuation(ch) == ch \in {".", ",", "?", "!", ":", ";", "\"", "'", "(", ")", "-"}

IsNotWhitespace(ch) == ~IsWhitespace(ch)

StripSpacesOnly(text) == SelectSeq(text, LAMBDA ch : ch # " ")

\* text.replace(/\s+/g, '')
StripWhitespace(text) == SelectSeq(text, IsNotWhitespace)

RECURSIVE TrimStart(_)
TrimStart(text) ==
    IF text # <<>> /\ IsWhitespace(Head(text)) THEN TrimStart(Tail(text)) ELSE text

RECURSIVE TrimEnd(_)
TrimEnd(text) ==
    IF text # <<>> /\ IsWhitespace(text[Len(text)])
    THEN TrimEnd(SubSeq(text, 1, Len(text) - 1))
    ELSE text

\* text.trim()
Trim(text) == TrimEnd(TrimStart(text))

\* the first index >= i that holds no whitespace (Len(text) + 1 if none)
RECURSIVE SkipWhitespace(_, _)
SkipWhitespace(text, i) ==
    IF i <= Len(text) /\ IsWhitespace(text[i]) THEN SkipWhitespace(text, i + 1) ELSE i

\* text.split(/\s+/): the pieces between maximal whitespace runs, empty
\* pieces included ("" gives [""]).
RECURSIVE SplitOnWhitespace(_, _, _, _)
SplitOnWhitespace(text, i, cur, out) ==
    IF i > Len(text) THEN Append(out, cur)
    ELSE IF IsWhitespace(text[i])
         THEN SplitOnWhitespace(text, SkipWhitespace(text, i), <<>>, Append(out, cur))
         ELSE SplitOnWhitespace(text, i + 1, Append(cur, text[i]), out)

IsNotEmpty(piece) == Len(piece) > 0

\* text.trim().split(/\s+/).filter(t => t.length > 0)
tokenize(text) == SelectSeq(SplitOnWhitespace(Trim(text), 1, <<>>, <<>>), IsNotEmpty)

\* text.match(punctuationRegex) || []
PunctuationMarks(text) == SelectSeq(text, IsPunctuation)

IsNotCR(ch) == ch # "\r"

\* The index of the last "\n" in the maximal whitespace run text[i..], 0 if the
\* run holds none: where \s*\n+ ends when it is tried at i.
RECURSIVE LastNewlineInRun(_, _, _)
LastNewlineInRun(text, i, last) ==
    IF i > Len(text) \/ ~IsWhitespace(text[i]) THEN last
    ELSE LastNewlineInRun(text, i + 1, IF text[i] = "\n" THEN i ELSE last)

\* Where a match of /\n\s*\n+/ that starts at i ends; 0 if none starts at i.
SeparatorEnd(text, i) ==
    IF text[i] = "\n" THEN LastNewlineInRun(text, i + 1, 0) ELSE 0

\* s.split(/\n\s*\n+/)
RECURSIVE SplitOnBlankLines(_, _, _, _)
SplitOnBlankLines(text, i, cur, out) ==
    IF i > Len(text) THEN Append(out, cur)
    ELSE IF SeparatorEnd(text, i) > 0
         THEN SplitOnBlankLines(text, SeparatorEnd(text, i) + 1, <<>>, Append(out, cur))
         ELSE SplitOnBlankLines(text, i + 1, Append(cur, text[i]), out)

RECURSIVE MapStrip(_)
MapStrip(pieces) ==
    IF pieces = <<>> THEN <<>>
    ELSE <<StripWhitespace(Head(pieces))>> \o MapStrip(Tail(pieces))

\* s.replace(/\r/g, '').split(/\n\s*\n+/).map(strip).filter(p => p.length > 0)
normalize(text) ==
    SelectSeq(MapStrip(SplitOnBlankLines(SelectSeq(text, IsNotCR), 1, <<>>, <<>>)),
              IsNotEmpty)

(***************************************************************************)
(* calculateCER: algorithms.ts returns the score, the MetricDetails        *)
(* revision returns score, numerator and denominator.                      *)
(***************************************************************************)
calculateCERNoEmptyBranch(t, o) ==
    JsDiv(Num(levenshteinDistance(StripWhitespace(t), StripWhitespace(o))),
          Num(Len(StripWhitespace(t))))

calculateCER(t, o) ==
    LET cleanTruth == StripWhitespace(t)
        cleanOcr == StripWhitespace(o)
    IN  IF Len(cleanTruth) = 0
        THEN (IF Len(cleanOcr) > 0 THEN Num(1) ELSE Num(0))
        ELSE JsDiv(Num(levenshteinDistance(cleanTruth, cleanOcr)), Num(Len(cleanTruth)))

calculateCERDetailsNoOcrLength(t, o) ==
    LET cleanTruth == StripWhitespace(t)
        cleanOcr == StripWhitespace(o)
        len == Len(cleanTruth)
        dist == levenshteinDistance(cleanTruth, cleanOcr)
    IN  IF len = 0
        THEN [score |-> IF Len(cleanOcr) > 0 THEN Num(1) ELSE Num(0),
              numerator |-> 0, denominator |-> 0]
        ELSE [score |-> JsDiv(Num(dist), Num(len)), numerator |-> dist, denominator |-> len]

calculateCERDetails(t, o) ==
    LET cleanTruth == StripWhitespace(t)
        cleanOcr == StripWhitespace(o)
        len == Len(cleanTruth)
        dist == levenshteinDistance(cleanTruth, cleanOcr)
    IN  IF len = 0
        THEN [score |-> IF Len(cleanOcr) > 0 THEN Num(1) ELSE Num(0),
              numerator |-> Len(cleanOcr),
              denominator |-> 0]
        ELSE [score |-> JsDiv(Num(dist), Num(len)),
              numerator |-> dist,
              denominator |-> len]

(***************************************************************************)
(* calculatePunctuationAccuracy, both revisions.                           *)
(***************************************************************************)
NoClamp(x) == x

\* Math.max(0, x)
Clamp0(x) == JsMax(Num(0), x)

calculatePunctuationAccuracy(t, o) ==
    LET truthPunc == PunctuationMarks(t)
        ocrPunc == PunctuationMarks(o)
    IN  IF Len(truthPunc) = 0
        THEN (IF Len(ocrPunc) = 0 THEN Num(1) ELSE Num(0))
        ELSE Clamp0(JsSub(Num(1), JsDiv(Num(levenshteinDistance(truthPunc, ocrPunc)),
                                        Num(Len(truthPunc)))))

calculatePunctuationAccuracyDetails(t, o) ==
    LET truthPunc == PunctuationMarks(t)
        ocrPunc == PunctuationMarks(o)
        len == Len(truthPunc)
        dist == levenshteinDistance(truthPunc, ocrPunc)
    IN  IF len = 0
        THEN [score |-> IF Len(ocrPunc) = 0 THEN Num(1) ELSE Num(0),
              numerator |-> 0,
              denominator |-> 0]
        ELSE [score |-> Clamp0(JsSub(Num(1), JsDiv(Num(dist), Num(len)))),
              numerator |-> dist,
              denominator |-> len]

(***************************************************************************)
(* calculateWERWithDiff.  A cell of the table is [dp, ptr] with ptr         *)
(* 0 = diagonal, 1 = up (deletion), 2 = left (insertion).                  *)
(***************************************************************************)
WerCostInverted(x, y) == IF x = y THEN 1 ELSE 0

\* const cost = tWords[i - 1] === oWords[j - 1] ? 0 : 1
WerCost(x, y) == IF x = y THEN 0 ELSE 1

WerCellAlwaysDiagonal(del, ins, sub) == [dp |-> Min3(del, ins, sub), ptr |-> 0]

WerCellDeletionFirst(del, ins, sub) ==
    IF del <= sub /\ del <= ins THEN [dp |-> del, ptr |-> 1]
    ELSE IF sub <= ins THEN [dp |-> sub, ptr |-> 0]
    ELSE [dp |-> ins, ptr |-> 2]

\* the if / else if / else that sets dp[i][j] and ptr[i][j]
WerCell(del, ins, sub) ==
    IF sub <= del /\ sub <= ins THEN [dp |-> sub, ptr |-> 0]
    ELSE IF del <= ins THEN [dp |-> del, ptr |-> 1]
    ELSE [dp |-> ins, ptr |-> 2]

\* dp[0][j] = j; ptr[0][j] = 2 (the second loop also overwrites ptr[0][0])
WerFirstRow(n) == [j \in 1..(n + 1) |-> [dp |-> j - 1, ptr |-> 2]]

\* dp[i] = [i]; ptr[i][0] = 1
WerFirstCell(i) == [dp |-> i, ptr |-> 1]

RECURSIVE WerFillRow(_, _, _, _, _)
WerFillRow(prev, row, w, oWords, j) ==
    IF j > Len(oWords) THEN row
    ELSE WerFillRow(prev,
                    Append(row, WerCell(prev[j + 1].dp + 1,
                                        row[j].dp + 1,
                                        prev[j].dp + WerCost(w, oWords[j]))),
                    w, oWords, j + 1)

RECURSIVE WerFillTable(_, _, _, _)
WerFillTable(tab, tWords, oWords, i) ==
    IF i > Len(tWords) THEN tab
    ELSE WerFillTable(Append(tab, WerFillRow(tab[i], <<WerFirstCell(i)>>,
                                             tWords[i], oWords, 1)),
                      tWords, oWords, i + 1)

WerTable(tWords, oWords) == WerFillTable(<<WerFirstRow(Len(oWords))>>, tWords, oWords, 1)

MatchItem(t, o) == [type |-> "match", truth |-> t, ocr |-> o]

SubstitutionItem(t, o) == [type |-> "substitution", truth |-> t, ocr |-> o]

InsertionItem(o) == [type |-> "insertion", ocr |-> o]

DeletionItem(t) == [type |-> "deletion", truth |-> t]

PushItem(diffs, item) == Append(diffs, item)

\* diffs.unshift(item)
Unshift(diffs, item) == <<item>> \o diffs

\* The while loop of the backtrack, from (i, j); acc is [diffs, s, i, d].
RECURSIVE Backtrack(_, _, _, _, _, _)
Backtrack(tab, tWords, oWords, i, j, acc) ==
    IF ~(i > 0 \/ j > 0) THEN acc
    ELSE IF i > 0 /\ j > 0 /\ tab[i + 1][j + 1].ptr = 0
    THEN IF tWords[i] = oWords[j]
         THEN Backtrack(tab, tWords, oWords, i - 1, j - 1,
                        [acc EXCEPT !.diffs = Unshift(@, MatchItem(tWords[i], oWords[j]))])
         ELSE Backtrack(tab, tWords, oWords, i - 1, j - 1,
                        [acc EXCEPT !.diffs = Unshift(@, SubstitutionItem(tWords[i], oWords[j])),
                                    !.s = @ + 1])
    ELSE IF j > 0 /\ (i = 0 \/ tab[i + 1][j + 1].ptr = 2)
    THEN Backtrack(tab, tWords, oWords, i, j - 1,
                   [acc EXCEPT !.diffs = Unshift(@, InsertionItem(oWords[j])),
                               !.i = @ + 1])
    ELSE Backtrack(tab, tWords, oWords, i - 1, j,
                   [acc EXCEPT !.diffs = Unshift(@, DeletionItem(tWords[i])),
                               !.d = @ + 1])

WerBacktrack(tWords, oWords) ==
    Backtrack(WerTable(tWords, oWords), tWords, oWords, Len(tWords), Len(oWords),
              [diffs |-> <<>>, s |-> 0, i |-> 0, d |-> 0])

WerScoreNoEmptyBranch(m, n, dist) == JsDiv(Num(dist), Num(m))

\* m === 0 ? (n > 0 ? 1 : 0) : dist / m
WerScore(m, n, dist) ==
    IF m = 0 THEN (IF n > 0 THEN Num(1) ELSE Num(0)) ELSE JsDiv(Num(dist), Num(m))

\* algorithms.ts: the distance is dp[m][n]
calculateWERWithDiff(t, o) ==
    LET tWords == tokenize(t)
        oWords == tokenize(o)
        m == Len(tWords)
        n == Len(oWords)
        dist == WerTable(tWords, oWords)[m + 1][n + 1].dp
    IN  [wer |-> WerScore(m, n, dist),
         diffs |-> WerBacktrack(tWords, oWords).diffs]

BreakdownSwapped(bt) == [s |-> bt.s, i |-> bt.d, d |-> bt.i]

\* breakdown: { s, i: iCount, d }
Breakdown(bt) == [s |-> bt.s, i |-> bt.i, d |-> bt.d]

\* MetricDetails revision: the distance is s + iCount + d of the backtrack
calculateWERWithDiffDetails(t, o) ==
    LET tWords == tokenize(t)
        oWords == tokenize(o)
        m == Len(tWords)
        n == Len(oWords)
        bt == WerBacktrack(tWords, oWords)
        dist == bt.s + bt.i + bt.d
    IN  [score |-> WerScore(m, n, dist),
         numerator |-> dist,
         denominator |-> m,
         breakdown |-> Breakdown(bt),
         diffs |-> bt.diffs]

(***************************************************************************)
(* calculateParagraphF1.  OCR paragraph indices are 0-based as in the      *)
(* code; -1 is "no match".  Quotients are exact here, doubles in the code: *)
(* the comparisons with 0.1 agree (a quotient of two paragraph lengths is  *)
(* the double 0.1 exactly when it is 1/10).                                *)
(***************************************************************************)
MatchThresholdLoose == Frac(1, 5)

\* const MATCH_THRESHOLD = 0.1
MATCH_THRESHOLD == Frac(1, 10)

IsUsedContent(used, k, ocrParas) == \E u \in used : ocrParas[u + 1] = ocrParas[k]

IsUsedNever(used, k, ocrParas) == FALSE

\* usedOcrIndices.has(oIdx), oIdx = k - 1
IsUsed(used, k, ocrParas) == (k - 1) \in used

IsBetterOrEqual(normalizedDist, bestDist) == JsLE(normalizedDist, bestDist)

\* normalizedDist < bestDist
IsBetter(normalizedDist, bestDist) == JsLT(normalizedDist, bestDist)

\* The inner forEach over ocrParas from position k (index k - 1);
\* best is [idx, dist, z].
RECURSIVE ScanOcrParas(_, _, _, _, _)
ScanOcrParas(tPara, ocrParas, used, k, best) ==
    IF k > Len(ocrParas) THEN best
    ELSE LET oPara == ocrParas[k]
             lengthGap == JsDiv(Num(Abs(Len(tPara) - Len(oPara))), Num(Len(tPara)))
             dist == levenshteinDistance(tPara, oPara)
             normalizedDist == JsDiv(Num(dist), Num(Max2(Len(tPara), Len(oPara))))
         IN  IF IsUsed(used, k, ocrParas)
             THEN ScanOcrParas(tPara, ocrParas, used, k + 1, best)
             ELSE IF JsGT(lengthGap, MATCH_THRESHOLD)
             THEN ScanOcrParas(tPara, ocrParas, used, k + 1,
                               [best EXCEPT !.z = @ \/ lengthGap.z])
             ELSE IF IsBetter(normalizedDist, best.dist)
             THEN ScanOcrParas(tPara, ocrParas, used, k + 1,
                               [idx |-> k - 1, dist |-> normalizedDist,
                                z |-> best.z \/ lengthGap.z \/ normalizedDist.z])
             ELSE ScanOcrParas(tPara, ocrParas, used, k + 1,
                               [best EXCEPT !.z = @ \/ lengthGap.z \/ normalizedDist.z])

\* One turn of the outer forEach, for truth paragraph tPara; st is
\* [truePositives, usedOcrIndices, z, turns], where turns lists, turn by
\* turn, the index added to usedOcrIndices (-1 when none was added).
MatchTurn(tPara, ocrParas, st) ==
    LET best == ScanOcrParas(tPara, ocrParas, st.usedOcrIndices, 1,
                             [idx |-> -1, dist |-> PosInf, z |-> FALSE])
    IN  IF best.idx # -1 /\ JsLE(best.dist, MATCH_THRESHOLD)
        THEN [truePositives |-> st.truePositives + 1,
              usedOcrIndices |-> st.usedOcrIndices \cup {best.idx},
              z |-> st.z \/ best.z,
              turns |-> Append(st.turns, best.idx)]
        ELSE [st EXCEPT !.z = @ \/ best.z, !.turns = Append(@, -1)]

\* The outer forEach over truthParas from position ti.
RECURSIVE MatchParas(_, _, _, _)
MatchParas(truthParas, ocrParas, ti, st) ==
    IF ti > Len(truthParas) THEN st
    ELSE MatchParas(truthParas, ocrParas, ti + 1, MatchTurn(truthParas[ti], ocrParas, st))

\* let truePositives = 0; const usedOcrIndices = new Set<number>()
NoMatches == [truePositives |-> 0, usedOcrIndices |-> {}, z |-> FALSE, turns |-> <<>>]

ParagraphMatching(truthParas, ocrParas) == MatchParas(truthParas, ocrParas, 1, NoMatches)

F1ScoreNoFactor(precision, recall) ==
    LET sum == JsAdd(precision, recall)
    IN  IF JsEq(sum, Num(0)) THEN Tainted(Num(0), sum.z)
        ELSE JsDiv(JsMul(precision, recall), sum)

\* if (precision + recall === 0) return 0;
\* return (2 * precision * recall) / (precision + recall)
F1Score(precision, recall) ==
    LET sum == JsAdd(precision, recall)
    IN  IF JsEq(sum, Num(0)) THEN Tainted(Num(0), sum.z)
        ELSE JsDiv(JsMul(JsMul(Num(2), precision), recall), sum)

\* precision = ocrParas.length === 0 ? 0 : truePositives / ocrParas.length
Precision(truePositives, ocrCount) ==
    IF ocrCount = 0 THEN Num(0) ELSE JsDiv(Num(truePositives), Num(ocrCount))

\* recall = truthParas.length === 0 ? 0 : truePositives / truthParas.length
Recall(truePositives, truthCount) ==
    IF truthCount = 0 THEN Num(0) ELSE JsDiv(Num(truePositives), Num(truthCount))

calculateParagraphF1(t, o) ==
    LET truthParas == normalize(t)
        ocrParas == normalize(o)
        st == ParagraphMatching(truthParas, ocrParas)
        f1 == F1Score(Precision(st.truePositives, Len(ocrParas)),
                      Recall(st.truePositives, Len(truthParas)))
    IN  IF Len(truthParas) = 0
        THEN (IF Len(ocrParas) = 0 THEN Num(1) ELSE Num(0))
        ELSE Tainted(f1, f1.z \/ st.z)

(***************************************************************************)
(* Inputs.                                                                 *)
(***************************************************************************)
SeqsUpTo(S, n) == UNION {[1..k -> S] : k \in 0..n}

Tokens == {"x", "y"}

TokenSeqs == SeqsUpTo(Tokens, MaxTokLen)

NotRun == <<>>

NoPair ==
    /\ truth = <<>>
    /\ ocr = <<>>
    /\ cer = NotRun
    /\ wer = NotRun
    /\ punc = NotRun
    /\ paraF1 = NotRun

NoCalls ==
    /\ calls = <<>>
    /\ frames = <<>>

NoApp ==
    /\ truthFiles = <<>>
    /\ ocrFiles = <<>>
    /\ results = <<>>
    /\ isProcessing = FALSE
    /\ error = "null"
    /\ run = <<>>

(***************************************************************************)
(* levenshteinDistance called on the pairs of three token sequences.       *)
(***************************************************************************)
InitLev ==
    /\ a \in TokenSeqs
    /\ b \in TokenSeqs
    /\ c \in TokenSeqs
    /\ lev = [ab |-> -1, ba |-> -1, bc |-> -1, ac |-> -1]
    /\ pc = "ab"
    /\ NoPair
    /\ NoCalls
    /\ NoApp

LevAB ==
    /\ pc = "ab"
    /\ lev' = [lev EXCEPT !.ab = levenshteinDistance(a, b)]
    /\ pc' = "ba"
    /\ UNCHANGED <<appVars, calls, frames, a, b, c, truth, ocr, cer, wer, punc, paraF1>>

LevBA ==
    /\ pc = "ba"
    /\ lev' = [lev EXCEPT !.ba = levenshteinDistance(b, a)]
    /\ pc' = "bc"
    /\ UNCHANGED <<appVars, calls, frames, a, b, c, truth, ocr, cer, wer, punc, paraF1>>

LevBC ==
    /\ pc = "bc"
    /\ lev' = [lev EXCEPT !.bc = levenshteinDistance(b, c)]
    /\ pc' = "ac"
    /\ UNCHANGED <<appVars, calls, frames, a, b, c, truth, ocr, cer, wer, punc, paraF1>>

LevAC ==
    /\ pc = "ac"
    /\ lev' = [lev EXCEPT !.ac = levenshteinDistance(a, c)]
    /\ pc' = "levDone"
    /\ UNCHANGED <<appVars, calls, frames, a, b, c, truth, ocr, cer, wer, punc, paraF1>>

NextLev == LevAB \/ LevBA \/ LevBC \/ LevAC

SpecLev == InitLev /\ [][NextLev]_vars

(***************************************************************************)
(* One file pair scored as runAnalysis does: calculateCER, then            *)
(* calculateWERWithDiff, calculatePunctuationAccuracy, calculateParagraphF1.*)
(* Each result variable holds what algorithms.ts returns (alg) and, where  *)
(* the MetricDetails revision exists, what that one returns (det).         *)
(***************************************************************************)
Chars == {"a", " ", "\n", ",", "."}

CharTexts == SeqsUpTo(Chars, MaxLen)

Words == {"a", "b"}

RECURSIVE JoinWithSpace(_)
JoinWithSpace(ws) ==
    IF ws = <<>> THEN <<>>
    ELSE IF Len(ws) = 1 THEN <<ws[1]>>
    ELSE <<ws[1], " ">> \o JoinWithSpace(Tail(ws))

WordTexts == {JoinWithSpace(ws) : ws \in SeqsUpTo(Words, MaxWords)}

SelfChars == {"a", "b", " ", "\n", ","}

SelfTexts == SeqsUpTo(SelfChars, MaxSelfLen)

Rep(ch, n) == [k \in 1..n |-> ch]

\* paragraph contents around the 10% tolerance: 9 letters, 10 letters, and
\* 10 letters with the last one different
ParagraphContents == {Rep("a", 9), Rep("a", 10), Rep("a", 9) \o <<"b">>}

RECURSIVE JoinWithBlankLine(_)
JoinWithBlankLine(ps) ==
    IF ps = <<>> THEN <<>>
    ELSE IF Len(ps) = 1 THEN ps[1]
    ELSE ps[1] \o <<"\n", "\n">> \o JoinWithBlankLine(Tail(ps))

ParaTexts == {JoinWithBlankLine(ps) : ps \in SeqsUpTo(ParagraphContents, MaxParas)}

\* "Hello world" and "Goodbye", separated by a blank line
HelloGoodbye ==
    <<"H", "e", "l", "l", "o", " ", "w", "o", "r", "l", "d", "\n", "\n",
      "G", "o", "o", "d", "b", "y", "e">>

\* "Hello world" and "Goodbye!", separated by a blank line
HelloGoodbyeBang == HelloGoodbye \o <<"!">>

\* truth "" and OCR "x"
EmptyTruthX == <<<<>>, <<"x">>>>

\* "the cat sat"
TheCatSat == <<"t", "h", "e", " ", "c", "a", "t", " ", "s", "a", "t">>

\* "the dog sat"
TheDogSat == <<"t", "h", "e", " ", "d", "o", "g", " ", "s", "a", "t">>

ScenarioPairs ==
    {<<HelloGoodbye, HelloGoodbyeBang>>, EmptyTruthX, <<TheCatSat, TheDogSat>>}

InputPairs ==
    (CharTexts \X CharTexts)
    \cup (WordTexts \X WordTexts)
    \cup (ParaTexts \X ParaTexts)
    \cup {<<t, t>> : t \in SelfTexts}
    \cup ScenarioPairs

Init ==
    /\ \E p \in InputPairs : truth = p[1] /\ ocr = p[2]
    /\ pc = "cer"
    /\ cer = NotRun
    /\ wer = NotRun
    /\ punc = NotRun
    /\ paraF1 = NotRun
    /\ a = <<>>
    /\ b = <<>>
    /\ c = <<>>
    /\ lev = [ab |-> -1, ba |-> -1, bc |-> -1, ac |-> -1]
    /\ NoCalls
    /\ NoApp

CalculateCER ==
    /\ pc = "cer"
    /\ cer' = [alg |-> calculateCER(truth, ocr), det |-> calculateCERDetails(truth, ocr)]
    /\ pc' = "wer"
    /\ UNCHANGED <<appVars, calls, frames, a, b, c, lev, truth, ocr, wer, punc, paraF1>>

CalculateWERWithDiff ==
    /\ pc = "wer"
    /\ wer' = [alg |-> calculateWERWithDiff(truth, ocr),
               det |-> calculateWERWithDiffDetails(truth, ocr)]
    /\ pc' = "punc"
    /\ UNCHANGED <<appVars, calls, frames, a, b, c, lev, truth, ocr, cer, punc, paraF1>>

CalculatePunctuationAccuracy ==
    /\ pc = "punc"
    /\ punc' = [alg |-> calculatePunctuationAccuracy(truth, ocr),
                det |-> calculatePunctuationAccuracyDetails(truth, ocr)]
    /\ pc' = "para"
    /\ UNCHANGED <<appVars, calls, frames, a, b, c, lev, truth, ocr, cer, wer, paraF1>>

CalculateParagraphF1 ==
    /\ pc = "para"
    /\ paraF1' = [alg |-> calculateParagraphF1(truth, ocr),
                  loop |-> ParagraphMatching(normalize(truth), normalize(ocr))]
    /\ pc' = "done"
    /\ UNCHANGED <<appVars, calls, frames, a, b, c, lev, truth, ocr, cer, wer, punc>>

Next ==
    \/ CalculateCER
    \/ CalculateWERWithDiff
    \/ CalculatePunctuationAccuracy
    \/ CalculateParagraphF1

Spec == Init /\ [][Next]_vars

(***************************************************************************)
(* Scorer invocations running side by side.  An invocation takes its       *)
(* arguments, then runs the outer loop of its scorer one iteration at a    *)
(* time, then returns; the iterations of different invocations interleave  *)
(* in any order.  Everything a scorer declares (the prepared sequences,    *)
(* the table or the match counters, the loop index) lives in the frame of  *)
(* its invocation.                                                         *)
(***************************************************************************)
Invocations == {1, 2}

Scorers ==
    {"calculateCER", "calculateWERWithDiff", "calculatePunctuationAccuracy",
     "calculateParagraphF1"}

ConcTexts ==
    {<<"a", ",", " ", "b">>, <<"a", "\n", "\n", "b", ".">>, <<"b">>}

SlotShared(p) == 1

\* const dp = [], const diffs = [], let truePositives = 0, ...: declared
\* inside the function body, one set per invocation
Slot(p) == p

NoFrame == [scorer |-> "none", truthSeq |-> <<>>, ocrSeq |-> <<>>, i |-> 1, locals |-> <<>>]

\* The declarations before the outer loop.
NewFrame(scorer, t, o) ==
    CASE scorer = "calculateCER" ->
            [scorer |-> scorer, truthSeq |-> StripWhitespace(t), ocrSeq |-> StripWhitespace(o),
             i |-> 1, locals |-> <<LevFirstRow(Len(StripWhitespace(o)))>>]
      [] scorer = "calculatePunctuationAccuracy" ->
            [scorer |-> scorer, truthSeq |-> PunctuationMarks(t), ocrSeq |-> PunctuationMarks(o),
             i |-> 1, locals |-> <<LevFirstRow(Len(PunctuationMarks(o)))>>]
      [] scorer = "calculateWERWithDiff" ->
            [scorer |-> scorer, truthSeq |-> tokenize(t), ocrSeq |-> tokenize(o),
             i |-> 1, locals |-> <<WerFirstRow(Len(tokenize(o)))>>]
      [] scorer = "calculateParagraphF1" ->
            [scorer |-> scorer, truthSeq |-> normalize(t), ocrSeq |-> normalize(o),
             i |-> 1, locals |-> NoMatches]

FrameFinished(f) == f.i > Len(f.truthSeq)

\* One iteration of the outer loop: a row of the table, or the turn of one
\* truth paragraph.
FrameStep(f) ==
    [f EXCEPT
       !.i = @ + 1,
       !.locals =
          CASE f.scorer \in {"calculateCER", "calculatePunctuationAccuracy"} ->
                  Append(@, LevFillRow(@[f.i], <<f.i>>, f.truthSeq[f.i], f.ocrSeq, 1))
            [] f.scorer = "calculateWERWithDiff" ->
                  Append(@, WerFillRow(@[f.i], <<WerFirstCell(f.i)>>,
                                       f.truthSeq[f.i], f.ocrSeq, 1))
            [] f.scorer = "calculateParagraphF1" ->
                  MatchTurn(f.truthSeq[f.i], f.ocrSeq, @)]

\* The statements after the outer loop, up to the return.
FrameResult(f) ==
    LET m == Len(f.truthSeq)
        n == Len(f.ocrSeq)
    IN  CASE f.scorer = "calculateCER" ->
                IF m = 0 THEN (IF n > 0 THEN Num(1) ELSE Num(0))
                ELSE JsDiv(Num(f.locals[m + 1][n + 1]), Num(m))
          [] f.scorer = "calculatePunctuationAccuracy" ->
                IF m = 0 THEN (IF n = 0 THEN Num(1) ELSE Num(0))
                ELSE Clamp0(JsSub(Num(1), JsDiv(Num(f.locals[m + 1][n + 1]), Num(m))))
          [] f.scorer = "calculateWERWithDiff" ->
                [wer |-> WerScore(m, n, f.locals[m + 1][n + 1].dp),
                 diffs |-> Backtrack(f.locals, f.truthSeq, f.ocrSeq, m, n,
                                     [diffs |-> <<>>, s |-> 0, i |-> 0, d |-> 0]).diffs]
          [] f.scorer = "calculateParagraphF1" ->
                IF m = 0 THEN (IF n = 0 THEN Num(1) ELSE Num(0))
                ELSE LET f1 == F1Score(Precision(f.locals.truePositives, n),
                                       Recall(f.locals.truePositives, m))
                     IN  Tainted(f1, f1.z \/ f.locals.z)

InitConc ==
    /\ calls \in [Invocations ->
                    {[scorer |-> k, truth |-> t, ocr |-> o, pc |-> "call",
                      result |-> NotRun, overlapped |-> FALSE] :
                        k \in Scorers, t \in ConcTexts, o \in ConcTexts}]
    /\ frames = [p \in Invocations |-> NoFrame]
    /\ pc = "calls"
    /\ NoPair
    /\ NoApp
    /\ a = <<>>
    /\ b = <<>>
    /\ c = <<>>
    /\ lev = [ab |-> -1, ba |-> -1, bc |-> -1, ac |-> -1]

\* Another invocation has been called and has not returned yet.
OthersInProgress(p) == \E q \in Invocations \ {p} : calls[q].pc = "loop"

Call(p) ==
    /\ calls[p].pc = "call"
    /\ frames' = [frames EXCEPT ![Slot(p)] =
                                  NewFrame(calls[p].scorer, calls[p].truth, calls[p].ocr)]
    /\ calls' = [calls EXCEPT ![p].pc = "loop"]
    /\ UNCHANGED <<appVars, a, b, c, lev, truth, ocr, pc, cer, wer, punc, paraF1>>

Iterate(p) ==
    /\ calls[p].pc = "loop"
    /\ ~FrameFinished(frames[Slot(p)])
    /\ frames' = [frames EXCEPT ![Slot(p)] = FrameStep(@)]
    /\ calls' = [calls EXCEPT ![p].overlapped = @ \/ OthersInProgress(p)]
    /\ UNCHANGED <<appVars, a, b, c, lev, truth, ocr, pc, cer, wer, punc, paraF1>>

Return(p) ==
    /\ calls[p].pc = "loop"
    /\ FrameFinished(frames[Slot(p)])
    /\ calls' = [calls EXCEPT ![p].pc = "returned",
                              ![p].result = FrameResult(frames[Slot(p)])]
    /\ UNCHANGED <<appVars, frames, a, b, c, lev, truth, ocr, pc, cer, wer, punc, paraF1>>

NextConc == \E p \in Invocations : Call(p) \/ Iterate(p) \/ Return(p)

SpecConc == InitConc /\ [][NextConc]_vars

(***************************************************************************)
(* App.runAnalysis.  A file is [name, text]; names are numbers, ordered as *)
(* localeCompare orders the file names.  An action is what runs between    *)
(* two awaits: the click runs the function up to its first await, and the  *)
(* load or error event of a pending read runs it up to the next one.       *)
(***************************************************************************)
Null == "null"

NoFile == [name |-> 0, text |-> <<>>]

TruthTextOf(n) == JoinWithSpace([k \in 1..n |-> "a"])

OcrTextOf(n) == JoinWithSpace([k \in 1..n |-> IF k = 1 THEN "b" ELSE "a"])

NameLists ==
    {ns \in SeqsUpTo(1..MaxFiles, MaxFiles) :
        \A i, j \in 1..Len(ns) : ns[i] = ns[j] => i = j}

\* [...files].sort((a, b) => a.name.localeCompare(b.name))
RECURSIVE InsertByName(_, _)
InsertByName(sorted, f) ==
    IF sorted = <<>> THEN <<f>>
    ELSE IF f.name < Head(sorted).name THEN <<f>> \o sorted
    ELSE <<Head(sorted)>> \o InsertByName(Tail(sorted), f)

RECURSIVE SortByName(_)
SortByName(files) ==
    IF files = <<>> THEN <<>>
    ELSE InsertByName(SortByName(Tail(files)), Head(files))

\* useMemo: pairs by index after sorting; pair i - 1 has id "pair-(i - 1)"
pairedFiles(tFiles, oFiles) ==
    LET sortedTruth == SortByName(tFiles)
        sortedOcr == SortByName(oFiles)
    IN  [i \in 1..Max2(Len(sortedTruth), Len(sortedOcr)) |->
            [id |-> i - 1,
             truthFile |-> IF i <= Len(sortedTruth) THEN sortedTruth[i] ELSE NoFile,
             ocrFile |-> IF i <= Len(sortedOcr) THEN sortedOcr[i] ELSE NoFile]]

\* not (!pair.truthFile || !pair.ocrFile)
IsComplete(pair) == pair.truthFile # NoFile /\ pair.ocrFile # NoFile

\* The for loop's "continue": the first pair from position i on that has
\* both files, Len(pairs) + 1 when there is none.
RECURSIVE NextComplete(_, _)
NextComplete(pairs, i) ==
    IF i > Len(pairs) THEN i
    ELSE IF IsComplete(pairs[i]) THEN i
    ELSE NextComplete(pairs, i + 1)

\* The object pushed on newResults.
AnalysisResult(pair, truthText, ocrText) ==
    [pairId |-> pair.id,
     truthFileName |-> pair.truthFile.name,
     ocrFileName |-> pair.ocrFile.name,
     cer |-> calculateCER(truthText, ocrText),
     wer |-> calculateWERWithDiff(truthText, ocrText).wer,
     wordDiffs |-> calculateWERWithDiff(truthText, ocrText).diffs,
     punctuationAccuracy |-> calculatePunctuationAccuracy(truthText, ocrText),
     paragraphF1 |-> calculateParagraphF1(truthText, ocrText),
     truthLength |-> Len(truthText),
     ocrLength |-> Len(ocrText)]

PublishedWhilePushing(published, newResults) == newResults

\* newResults.push(...) leaves the results state as it is
ResultsWhileLooping(published, newResults) == published

\* run.log lists what the current (or last) run did, in order; run.previous
\* is the results state when it started; run.runs counts the runs started.
NotRunning ==
    [pc |-> "idle", pairs |-> <<>>, i |-> 0, newResults |-> <<>>, truthText |-> <<>>,
     runs |-> 0, log |-> <<>>, previous |-> <<>>]

InitApp ==
    /\ truthFiles \in {[i \in 1..Len(ns) |-> [name |-> ns[i], text |-> TruthTextOf(ns[i])]] :
                           ns \in NameLists}
    /\ ocrFiles \in {[i \in 1..Len(ns) |-> [name |-> ns[i], text |-> OcrTextOf(ns[i])]] :
                         ns \in NameLists}
    /\ results = <<>>
    /\ isProcessing = FALSE
    /\ error = Null
    /\ run = NotRunning
    /\ pc = "app"
    /\ NoPair
    /\ NoCalls
    /\ a = <<>>
    /\ b = <<>>
    /\ c = <<>>
    /\ lev = [ab |-> -1, ba |-> -1, bc |-> -1, ac |-> -1]

\* The for loop from pair i stops at the next await (a pair with both files)
\* or runs through setResults and the finally block.
AtAwait(r, i) == NextComplete(r.pairs, i) <= Len(r.pairs)

RunAfterLoop(r, i) ==
    IF AtAwait(r, i)
    THEN [r EXCEPT !.pc = "readTruth",
                   !.i = NextComplete(r.pairs, i),
                   !.log = Append(@, <<"readFile", "truth", NextComplete(r.pairs, i)>>)]
    ELSE [r EXCEPT !.pc = "idle",
                   !.i = NextComplete(r.pairs, i),
                   !.log = Append(@, <<"setResults">>)]

\* setResults(newResults) after the loop
ResultsAfterLoop(r, i) ==
    IF AtAwait(r, i) THEN ResultsWhileLooping(results, r.newResults) ELSE r.newResults

\* The run entered by a click.
Entered ==
    [pc |-> "entered", pairs |-> pairedFiles(truthFiles, ocrFiles), i |-> 1,
     newResults |-> <<>>, truthText |-> <<>>, runs |-> run.runs + 1,
     log |-> <<>>, previous |-> results]

\* The run after newResults.push(...) for the pair whose OCR file was read.
Pushed ==
    [run EXCEPT !.newResults =
        Append(@, AnalysisResult(run.pairs[run.i], run.truthText,
                                 run.pairs[run.i].ocrFile.text))]

RunAnalysisNoFiles ==
    /\ run.pc = "idle"
    /\ Len(pairedFiles(truthFiles, ocrFiles)) = 0
    /\ error' = "Please upload files first."
    /\ UNCHANGED <<truthFiles, ocrFiles, results, isProcessing, run>>
    /\ UNCHANGED <<a, b, c, lev, truth, ocr, pc, cer, wer, punc, paraF1, calls, frames>>

RunAnalysis ==
    /\ run.pc = "idle"
    /\ run.runs < MaxRuns
    /\ Len(pairedFiles(truthFiles, ocrFiles)) > 0
    /\ error' = Null
    /\ run' = RunAfterLoop(Entered, 1)
    /\ results' = ResultsAfterLoop(Entered, 1)
    /\ isProcessing' = AtAwait(Entered, 1)
    /\ UNCHANGED <<truthFiles, ocrFiles>>
    /\ UNCHANGED <<a, b, c, lev, truth, ocr, pc, cer, wer, punc, paraF1, calls, frames>>

\* reader.onload of the truth file: the OCR file's read starts
TruthLoaded ==
    /\ run.pc = "readTruth"
    /\ run' = [run EXCEPT !.pc = "readOcr",
                          !.truthText = run.pairs[run.i].truthFile.text,
                          !.log = Append(@, <<"readFile", "ocr", run.i>>)]
    /\ UNCHANGED <<truthFiles, ocrFiles, results, isProcessing, error>>
    /\ UNCHANGED <<a, b, c, lev, truth, ocr, pc, cer, wer, punc, paraF1, calls, frames>>

\* reader.onload of the OCR file: the pair is scored and the loop goes on
OcrLoaded ==
    /\ run.pc = "readOcr"
    /\ run' = RunAfterLoop(Pushed, run.i + 1)
    /\ results' = ResultsAfterLoop(Pushed, run.i + 1)
    /\ isProcessing' = AtAwait(Pushed, run.i + 1)
    /\ UNCHANGED <<truthFiles, ocrFiles, error>>
    /\ UNCHANGED <<a, b, c, lev, truth, ocr, pc, cer, wer, punc, paraF1, calls, frames>>

\* reader.onerror: the await throws, the catch and finally blocks run
ReadFailed ==
    /\ run.pc \in {"readTruth", "readOcr"}
    /\ error' = "An error occurred while reading files."
    /\ isProcessing' = FALSE
    /\ run' = [run EXCEPT !.pc = "idle", !.log = Append(@, <<"setError">>)]
    /\ UNCHANGED <<truthFiles, ocrFiles, results>>
    /\ UNCHANGED <<a, b, c, lev, truth, ocr, pc, cer, wer, punc, paraF1, calls, frames>>

NextApp ==
    \/ RunAnalysisNoFiles
    \/ RunAnalysis
    \/ TruthLoaded
    \/ OcrLoaded
    \/ ReadFailed

\* A FileReader that was started fires load or error.
ReadSettles == ReadFailed \/ TruthLoaded \/ OcrLoaded

SpecApp == InitApp /\ [][NextApp]_vars /\ WF_vars(ReadSettles)

(***************************************************************************)
(* Reference notion of edit distance, independent of the table: the least  *)
(* number of single-token insertions, deletions and substitutions leading  *)
(* from s to t, found by breadth-first search over token sequences.        *)
(* Intermediate sequences longer than both s and t by more than one token  *)
(* are not needed by a shortest script and are left out.                   *)
(***************************************************************************)
RemoveAt(s, i) == [k \in 1..(Len(s) - 1) |-> IF k < i THEN s[k] ELSE s[k + 1]]

InsertAt(s, i, x) ==
    [k \in 1..(Len(s) + 1) |-> IF k < i THEN s[k] ELSE IF k = i THEN x ELSE s[k - 1]]

OneEdit(s, cap) ==
    {RemoveAt(s, i) : i \in 1..Len(s)}
    \cup {[s EXCEPT ![i] = x] : i \in 1..Len(s), x \in Tokens}
    \cup (IF Len(s) >= cap THEN {}
          ELSE {InsertAt(s, i, x) : i \in 1..(Len(s) + 1), x \in Tokens})

RECURSIVE EditsFrom(_, _, _, _)
EditsFrom(reached, t, k, cap) ==
    IF t \in reached THEN k
    ELSE EditsFrom(reached \cup UNION {OneEdit(s, cap) : s \in reached}, t, k + 1, cap)

MinEdits(s, t) == EditsFrom({s}, t, 0, Max2(Len(s), Len(t)) + 1)

\* C1: levenshteinDistance(A, B) is the minimum number of unit-cost
\* single-token insertions, deletions and substitutions that turn A into B;
\* when either sequence is empty it is the length of the other.
C1_LevIsMinimumEdits ==
    /\ lev.ab # -1 =>
        /\ lev.ab = MinEdits(a, b)
        /\ (a = <<>> => lev.ab = Len(b))
        /\ (b = <<>> => lev.ab = Len(a))
    /\ lev.bc # -1 => lev.bc = MinEdits(b, c)

C1_Witness ==
    /\ pc = "levDone"
    /\ Len(a) = 3
    /\ Len(b) = 2
    /\ lev.ab = 2
    /\ c = <<>>
    /\ lev.bc = 2

\* C5: levenshteinDistance(A, B) = levenshteinDistance(B, A).
C5_LevSymmetric ==
    (lev.ab # -1 /\ lev.ba # -1) => lev.ab = lev.ba

C5_Witness ==
    /\ pc = "levDone"
    /\ Len(a) < Len(b)
    /\ a # <<>>
    /\ lev.ab = 2
    /\ lev.ba = 2

\* C6: levenshteinDistance(A, C) <= levenshteinDistance(A, B) +
\* levenshteinDistance(B, C) for any three token sequences.
C6_LevTriangle ==
    pc = "levDone" => lev.ac <= lev.ab + lev.bc

C6_Witness ==
    /\ pc = "levDone"
    /\ a # b /\ b # c /\ a # c
    /\ lev.ab > 0
    /\ lev.bc > 0
    /\ lev.ac = lev.ab + lev.bc

(***************************************************************************)
(* Properties of the scorers on one file pair.                             *)
(***************************************************************************)
CerDone == pc \in {"wer", "punc", "para", "done"}

WerDone == pc \in {"punc", "para", "done"}

PuncDone == pc \in {"para", "done"}

ParaDone == pc = "done"

NotInsertion(item) == item.type # "insertion"

NotDeletion(item) == item.type # "deletion"

TruthFields(diffs) ==
    LET kept == SelectSeq(diffs, NotInsertion)
    IN  [k \in 1..Len(kept) |-> kept[k].truth]

OcrFields(diffs) ==
    LET kept == SelectSeq(diffs, NotDeletion)
    IN  [k \in 1..Len(kept) |-> kept[k].ocr]

CountType(diffs, ty) == Cardinality({k \in 1..Len(diffs) : diffs[k].type = ty})

TypesOf(diffs) == {diffs[k].type : k \in 1..Len(diffs)}

\* a finite number reached without any division by zero
Defined(x) == x.k = "fin" /\ ~x.z

\* C2: scoring a text against itself gives calculateCER = 0,
\* calculateWERWithDiff score = 0, calculatePunctuationAccuracy = 1 and
\* calculateParagraphF1 = 1, also when the text repeats a paragraph.
C2_SelfScores ==
    truth = ocr =>
        /\ CerDone => (cer.alg = Num(0) /\ cer.det.score = Num(0))
        /\ WerDone => (wer.alg.wer = Num(0) /\ wer.det.score = Num(0))
        /\ PuncDone => (punc.alg = Num(1) /\ punc.det.score = Num(1))
        /\ ParaDone => paraF1.alg = Num(1)

C2_Witness ==
    /\ pc = "done"
    /\ truth = ocr
    /\ Len(normalize(truth)) = 2
    /\ normalize(truth)[1] = normalize(truth)[2]
    /\ paraF1.alg = Num(1)

\* C3: the diff of calculateWERWithDiff covers every truth word and every
\* OCR word once and in order: the truth fields of the non-insertion items
\* are the tokenized truth, the ocr fields of the non-deletion items are the
\* tokenized OCR text.
C3_DiffCoversWords ==
    WerDone =>
        \A diffs \in {wer.alg.diffs, wer.det.diffs} :
            /\ TruthFields(diffs) = tokenize(truth)
            /\ OcrFields(diffs) = tokenize(ocr)

C3_Witness ==
    /\ pc = "done"
    /\ Len(tokenize(truth)) = 3
    /\ Len(tokenize(ocr)) = 2
    /\ TypesOf(wer.det.diffs) = {"match", "substitution", "deletion"}
    /\ wer.alg.diffs = wer.det.diffs

\* C4: in every calculateWERWithDiff result s + i + d = numerator,
\* denominator = m, s / i / d count the substitution / insertion / deletion
\* items of diffs, and score = numerator / m when m > 0.
C4_BreakdownAccounts ==
    WerDone =>
        LET r == wer.det
            m == Len(tokenize(truth))
        IN  /\ r.breakdown.s + r.breakdown.i + r.breakdown.d = r.numerator
            /\ r.denominator = m
            /\ r.breakdown.s = CountType(r.diffs, "substitution")
            /\ r.breakdown.i = CountType(r.diffs, "insertion")
            /\ r.breakdown.d = CountType(r.diffs, "deletion")
            /\ m > 0 => r.score = Frac(r.numerator, m)

C4_Witness ==
    /\ pc = "done"
    /\ wer.det.breakdown.s = 1
    /\ wer.det.breakdown.i = 1
    /\ wer.det.breakdown.d = 0
    /\ wer.det.numerator = 2
    /\ wer.det.denominator = 2

\* C7: every scorer is total: on every pair of texts, empty ones included,
\* it returns a finite score and divides by zero nowhere; with a zero
\* denominator the empty-input branch decides the score.
C7_ScorersTotal ==
    /\ CerDone =>
        /\ Defined(cer.alg) /\ Defined(cer.det.score)
        /\ Len(StripWhitespace(truth)) = 0 =>
              (cer.alg \in {Num(0), Num(1)} /\ cer.det.score = cer.alg)
    /\ WerDone =>
        /\ Defined(wer.alg.wer) /\ Defined(wer.det.score)
        /\ Len(tokenize(truth)) = 0 =>
              (wer.alg.wer \in {Num(0), Num(1)} /\ wer.det.score = wer.alg.wer)
    /\ PuncDone =>
        /\ Defined(punc.alg) /\ Defined(punc.det.score)
        /\ Len(PunctuationMarks(truth)) = 0 =>
              (punc.alg \in {Num(0), Num(1)} /\ punc.det.score = punc.alg)
    /\ ParaDone =>
        /\ Defined(paraF1.alg)
        /\ \A k \in 1..Len(normalize(truth)) : Len(normalize(truth)[k]) > 0
        /\ Len(normalize(truth)) = 0 => paraF1.alg \in {Num(0), Num(1)}
        /\ Len(normalize(ocr)) = 0 => paraF1.alg \in {Num(0), Num(1)}

C7_Witness ==
    /\ pc = "done"
    /\ truth # <<>>
    /\ StripWhitespace(truth) = <<>>
    /\ PunctuationMarks(ocr) # <<>>
    /\ cer.det.denominator = 0
    /\ cer.alg = Num(1)
    /\ punc.alg = Num(0)
    /\ paraF1.alg = Num(0)

\* C8 as stated: truth "Hello world" / "Goodbye" against OCR "Hello world" /
\* "Goodbye!" gives calculateParagraphF1 = 1.0 (both paragraphs matched).
C8_ScenarioScoresOne ==
    (pc = "done" /\ truth = HelloGoodbye /\ ocr = HelloGoodbyeBang)
        => paraF1.alg = Num(1)

\* C8 amended: in that scenario calculateParagraphF1 = 0.5: only
\* "Hello world" is matched, "Goodbye" / "Goodbye!" differ in length by 1/7.
C8_ScenarioScoresHalf ==
    (pc = "done" /\ truth = HelloGoodbye /\ ocr = HelloGoodbyeBang)
        => /\ paraF1.alg = Frac(1, 2)
           /\ ParagraphMatching(normalize(truth), normalize(ocr)).truePositives = 1
           /\ ParagraphMatching(normalize(truth), normalize(ocr)).usedOcrIndices = {0}

C8_Witness ==
    /\ pc = "done"
    /\ truth = HelloGoodbye
    /\ ocr = HelloGoodbyeBang
    /\ Len(normalize(truth)) = 2
    /\ Len(normalize(ocr)) = 2

\* C9: for every pair of texts, truth without punctuation included,
\* calculatePunctuationAccuracy reports numerator = the edit distance of the
\* two punctuation sequences and denominator = the truth punctuation count.
C9_PuncNumeratorIsDistance ==
    PuncDone =>
        /\ punc.det.numerator =
              levenshteinDistance(PunctuationMarks(truth), PunctuationMarks(ocr))
        /\ punc.det.denominator = Len(PunctuationMarks(truth))

\* C10: the punctuation score is max(0, 1 - distance / truthCount) for a
\* non-empty truth punctuation sequence, else 1 if the OCR one is empty too
\* and 0 otherwise; it lies in [0, 1], is 0 when distance >= truthCount, and
\* truth marks [",", "."] against OCR marks [","] give 0.5.
C10_PuncScore ==
    PuncDone =>
        LET tp == PunctuationMarks(truth)
            op == PunctuationMarks(ocr)
            dist == levenshteinDistance(tp, op)
            expected == IF Len(tp) > 0
                        THEN (IF dist >= Len(tp) THEN Num(0)
                              ELSE Frac(Len(tp) - dist, Len(tp)))
                        ELSE (IF Len(op) = 0 THEN Num(1) ELSE Num(0))
        IN  /\ punc.alg = expected
            /\ punc.det.score = expected
            /\ JsLE(Num(0), punc.alg) /\ JsLE(punc.alg, Num(1))
            /\ (tp = <<",", ".">> /\ op = <<",">>) => punc.alg = Frac(1, 2)

C10_Witness ==
    /\ pc = "done"
    /\ PunctuationMarks(truth) = <<",", ".">>
    /\ PunctuationMarks(ocr) = <<",">>
    /\ punc.alg = Frac(1, 2)
    /\ punc.det.score = Frac(1, 2)

\* Texts one whitespace character away from text: one inserted anywhere, or
\* one removed.
WsVariants(text) ==
    {InsertAt(text, i, ws) : i \in 1..(Len(text) + 1), ws \in {" ", "\n"}}
    \cup {RemoveAt(text, i) : i \in {k \in 1..Len(text) : IsWhitespace(text[k])}}

\* C11: the result calculateCER has just returned depends only on the two
\* texts with all whitespace deleted: score, numerator and denominator are
\* those of the stripped texts, and inserting or removing one whitespace
\* character anywhere in the truth text or in the OCR text changes none of
\* them.
C11_CerIgnoresWhitespace ==
    pc = "wer" =>
        /\ cer.det = calculateCERDetails(StripWhitespace(truth), StripWhitespace(ocr))
        /\ cer.alg = cer.det.score
        /\ Len(truth) + Len(ocr) <= MaxSelfLen + 1 =>
            /\ \A T \in WsVariants(truth) : calculateCERDetails(T, ocr) = cer.det
            /\ \A O \in WsVariants(ocr) : calculateCERDetails(truth, O) = cer.det

C11_Witness ==
    /\ pc = "wer"
    /\ truth = <<"a", " ", "b">>
    /\ ocr = <<"b", " ", "a">>
    /\ cer.det.numerator = 2
    /\ cer.det.denominator = 2

\* C12: when the whitespace-stripped truth is empty, calculateCER returns
\* score 1 if the stripped OCR text is non-empty and 0 otherwise, with
\* denominator 0 and numerator = stripped OCR length; otherwise score =
\* distance / stripped truth length, numerator = distance and denominator =
\* stripped truth length.  Truth "" and OCR "x" give score 1, denominator 0.
C12_CerEmptyTruthPolicy ==
    pc = "wer" =>
        LET cleanTruth == StripWhitespace(truth)
            cleanOcr == StripWhitespace(ocr)
            dist == levenshteinDistance(cleanTruth, cleanOcr)
        IN  /\ Len(cleanTruth) = 0 =>
                /\ cer.det.score = (IF Len(cleanOcr) > 0 THEN Num(1) ELSE Num(0))
                /\ cer.det.denominator = 0
                /\ cer.det.numerator = Len(cleanOcr)
            /\ Len(cleanTruth) > 0 =>
                /\ cer.det.score = Frac(dist, Len(cleanTruth))
                /\ cer.det.numerator = dist
                /\ cer.det.denominator = Len(cleanTruth)
            /\ cer.alg = cer.det.score
            /\ (truth = EmptyTruthX[1] /\ ocr = EmptyTruthX[2]) =>
                (cer.det.score = Num(1) /\ cer.det.denominator = 0)

C12_Witness ==
    /\ pc = "wer"
    /\ truth = EmptyTruthX[1]
    /\ ocr = EmptyTruthX[2]
    /\ cer.det = [score |-> Num(1), numerator |-> 1, denominator |-> 0]

\* C13: when the truth text has no words, calculateWERWithDiff returns score
\* 1 if the OCR text has a word and 0 otherwise, denominator 0, breakdown
\* {s: 0, i: n, d: 0} and a diff of exactly n insertion items, the OCR words
\* in order; when the OCR text has no words and the truth has m > 0, the
\* diff is exactly m deletion items (the truth words in order) and the
\* score is 1.
C13_WerEmptySides ==
    WerDone =>
        LET tWords == tokenize(truth)
            oWords == tokenize(ocr)
            m == Len(tWords)
            n == Len(oWords)
        IN  /\ m = 0 =>
                /\ wer.det.score = (IF n > 0 THEN Num(1) ELSE Num(0))
                /\ wer.alg.wer = wer.det.score
                /\ wer.det.denominator = 0
                /\ wer.det.breakdown = [s |-> 0, i |-> n, d |-> 0]
                /\ wer.det.diffs = [k \in 1..n |-> InsertionItem(oWords[k])]
                /\ wer.alg.diffs = wer.det.diffs
            /\ (n = 0 /\ m > 0) =>
                /\ wer.det.score = Num(1)
                /\ wer.alg.wer = Num(1)
                /\ wer.det.breakdown = [s |-> 0, i |-> 0, d |-> m]
                /\ wer.det.diffs = [k \in 1..m |-> DeletionItem(tWords[k])]
                /\ wer.alg.diffs = wer.det.diffs

C13_Witness ==
    /\ pc = "done"
    /\ tokenize(truth) = <<>>
    /\ tokenize(ocr) = <<<<"a">>, <<"b">>, <<"a">>>>
    /\ wer.det.breakdown = [s |-> 0, i |-> 3, d |-> 0]
    /\ wer.det.score = Num(1)

C13_WitnessNoOcrWords ==
    /\ pc = "done"
    /\ tokenize(ocr) = <<>>
    /\ tokenize(truth) = <<<<"a">>, <<"b">>>>
    /\ wer.det.breakdown = [s |-> 0, i |-> 0, d |-> 2]

\* Positions at which two word lists of equal length differ.
DifferAt(tWords, oWords) == {k \in 1..Len(tWords) : tWords[k] # oWords[k]}

\* C14: for two word lists of equal length m >= 1 that differ at exactly one
\* position k, calculateWERWithDiff returns score 1/m, breakdown
\* {s: 1, i: 0, d: 0} and a diff of m items, all match except a substitution
\* at position k; "the cat sat" against "the dog sat" gives 1/3 and
\* [match the, substitution cat/dog, match sat].
C14_SingleSubstitution ==
    WerDone =>
        LET tWords == tokenize(truth)
            oWords == tokenize(ocr)
            m == Len(tWords)
        IN  /\ (m >= 1 /\ Len(oWords) = m /\ Cardinality(DifferAt(tWords, oWords)) = 1) =>
                /\ wer.det.score = Frac(1, m)
                /\ wer.alg.wer = Frac(1, m)
                /\ wer.det.breakdown = [s |-> 1, i |-> 0, d |-> 0]
                /\ wer.det.diffs =
                      [k \in 1..m |-> IF k \in DifferAt(tWords, oWords)
                                      THEN SubstitutionItem(tWords[k], oWords[k])
                                      ELSE MatchItem(tWords[k], oWords[k])]
                /\ wer.alg.diffs = wer.det.diffs
            /\ (truth = TheCatSat /\ ocr = TheDogSat) =>
                /\ wer.det.score = Frac(1, 3)
                /\ wer.det.diffs =
                      <<MatchItem(<<"t", "h", "e">>, <<"t", "h", "e">>),
                        SubstitutionItem(<<"c", "a", "t">>, <<"d", "o", "g">>),
                        MatchItem(<<"s", "a", "t">>, <<"s", "a", "t">>)>>

C14_Witness ==
    /\ pc = "done"
    /\ truth = TheCatSat
    /\ ocr = TheDogSat
    /\ wer.det.breakdown = [s |-> 1, i |-> 0, d |-> 0]
    /\ wer.det.score = Frac(1, 3)
    /\ Len(wer.det.diffs) = 3

InUnitInterval(x) == JsLE(Num(0), x) /\ JsLE(x, Num(1))

\* Turns of the matching loop at which an OCR index was added to the used set.
AddingTurns(turns) == {k \in 1..Len(turns) : turns[k] # -1}

\* C15: in calculateParagraphF1 each truth paragraph has one turn and adds at
\* most one OCR index, no OCR index is added at two turns, and after the loop
\* truePositives = |usedOcrIndices| <= min(truth paragraph count, OCR
\* paragraph count); precision, recall and the F1 score lie in [0, 1].
C15_MatchingIsInjective ==
    ParaDone =>
        LET truthCount == Len(normalize(truth))
            ocrCount == Len(normalize(ocr))
            st == paraF1.loop
            adding == AddingTurns(st.turns)
        IN  /\ Len(st.turns) = truthCount
            /\ \A j, k \in adding : st.turns[j] = st.turns[k] => j = k
            /\ st.usedOcrIndices = {st.turns[k] : k \in adding}
            /\ st.usedOcrIndices \subseteq 0..(ocrCount - 1)
            /\ st.truePositives = Cardinality(adding)
            /\ st.truePositives = Cardinality(st.usedOcrIndices)
            /\ st.truePositives <= Min2(truthCount, ocrCount)
            /\ InUnitInterval(Precision(st.truePositives, ocrCount))
            /\ InUnitInterval(Recall(st.truePositives, truthCount))
            /\ InUnitInterval(paraF1.alg)

C15_Witness ==
    /\ pc = "done"
    /\ normalize(truth) = <<Rep("a", 10), Rep("a", 10)>>
    /\ normalize(ocr) = <<Rep("a", 10)>>
    /\ paraF1.loop.turns = <<0, -1>>
    /\ paraF1.loop.truePositives = 1
    /\ paraF1.alg = Frac(2, 3)

\* C16: calculateParagraphF1 returns, for an empty truth paragraph list, 1 if
\* the OCR paragraph list is empty too and 0 otherwise, with no turn of the
\* matching loop run; otherwise the harmonic mean of precision = TP / OCR
\* count (0 for an empty OCR list) and recall = TP / truth count, which is
\* 2 * TP / (truth count + OCR count), and 0 when TP = 0.
C16_F1Value ==
    ParaDone =>
        LET truthCount == Len(normalize(truth))
            ocrCount == Len(normalize(ocr))
            TP == paraF1.loop.truePositives
            precision == IF ocrCount = 0 THEN Num(0) ELSE Frac(TP, ocrCount)
            recall == Frac(TP, truthCount)
        IN  /\ truthCount = 0 =>
                /\ paraF1.alg = (IF ocrCount = 0 THEN Num(1) ELSE Num(0))
                /\ paraF1.loop.turns = <<>>
            /\ truthCount > 0 =>
                /\ paraF1.alg = Frac(2 * TP, truthCount + ocrCount)
                /\ JsMul(paraF1.alg, JsAdd(precision, recall))
                      = JsMul(JsMul(Num(2), precision), recall)
                /\ TP = 0 => paraF1.alg = Num(0)

C16_Witness ==
    /\ pc = "done"
    /\ Len(normalize(truth)) = 1
    /\ Len(normalize(ocr)) = 2
    /\ paraF1.loop.truePositives = 1
    /\ paraF1.alg = Frac(2, 3)

C16_WitnessEmptyTruth ==
    /\ pc = "done"
    /\ Len(normalize(truth)) = 0
    /\ Len(normalize(ocr)) = 2
    /\ paraF1.alg = Num(0)

\* The cell reached after the first k diff items, walking from (0, 0): every
\* item but an insertion consumes a truth word, every item but a deletion an
\* OCR word.
RowAfter(diffs, k) == Cardinality({x \in 1..k : diffs[x].type # "insertion"})

ColAfter(diffs, k) == Cardinality({x \in 1..k : diffs[x].type # "deletion"})

\* The item the backtrace has to emit when it leaves cell (i, j).
ItemAt(tab, tWords, oWords, i, j) ==
    IF i = 0 THEN InsertionItem(oWords[j])
    ELSE IF j = 0 THEN DeletionItem(tWords[i])
    ELSE IF tab[i + 1][j + 1].ptr = 0
         THEN (IF tWords[i] = oWords[j] THEN MatchItem(tWords[i], oWords[j])
               ELSE SubstitutionItem(tWords[i], oWords[j]))
    ELSE IF tab[i + 1][j + 1].ptr = 1 THEN DeletionItem(tWords[i])
    ELSE InsertionItem(oWords[j])

\* C18: in calculateWERWithDiff every interior cell's pointer is diagonal
\* when the diagonal cost is <= the deletion and insertion costs, else up
\* (deletion) when the deletion cost is <= the insertion cost, else left
\* (insertion); column 0 backtraces as deletions and row 0 as insertions;
\* the backtrace from (m, n) follows exactly these pointers, a diagonal step
\* being a match for equal words and a substitution otherwise, and reaches
\* (0, 0) within m + n steps.
C18_PointersAndBacktrace ==
    WerDone =>
        LET tWords == tokenize(truth)
            oWords == tokenize(ocr)
            m == Len(tWords)
            n == Len(oWords)
            tab == WerTable(tWords, oWords)
            diffs == wer.det.diffs
        IN  /\ \A i \in 1..m, j \in 1..n :
                  LET sub == tab[i][j].dp + (IF tWords[i] = oWords[j] THEN 0 ELSE 1)
                      del == tab[i][j + 1].dp + 1
                      ins == tab[i + 1][j].dp + 1
                      ptr == tab[i + 1][j + 1].ptr
                  IN  /\ ptr = 0 <=> (sub <= del /\ sub <= ins)
                      /\ ptr = 1 <=> (~(sub <= del /\ sub <= ins) /\ del <= ins)
                      /\ ptr = 2 <=> (~(sub <= del /\ sub <= ins) /\ ins < del)
            /\ \A i \in 1..m : tab[i + 1][1].ptr = 1
            /\ \A j \in 1..n : tab[1][j + 1].ptr = 2
            /\ \A k \in 1..Len(diffs) :
                  diffs[k] = ItemAt(tab, tWords, oWords, RowAfter(diffs, k), ColAfter(diffs, k))
            /\ RowAfter(diffs, Len(diffs)) = m
            /\ ColAfter(diffs, Len(diffs)) = n
            /\ Len(diffs) <= m + n
            /\ wer.alg.diffs = diffs

C18_Witness ==
    /\ pc = "done"
    /\ tokenize(truth) = <<<<"a">>, <<"a">>>>
    /\ tokenize(ocr) = <<<<"a">>>>
    /\ WerTable(tokenize(truth), tokenize(ocr))[3][2] = [dp |-> 1, ptr |-> 0]
    /\ wer.det.diffs = <<DeletionItem(<<"a">>), MatchItem(<<"a">>, <<"a">>)>>

\* |len(t) - len(o)| / len(t) <= 0.10, for a non-empty t
PassesLengthFilter(t, o) == 10 * Abs(Len(t) - Len(o)) <= Len(t)

\* levenshteinDistance(t, o) / max(len(t), len(o)) <= 0.10
WithinThreshold(t, o) == 10 * levenshteinDistance(t, o) <= Max2(Len(t), Len(o))

\* o1 has a smaller normalized distance to t than o2
Closer(t, o1, o2) ==
    levenshteinDistance(t, o1) * Max2(Len(t), Len(o2))
        < levenshteinDistance(t, o2) * Max2(Len(t), Len(o1))

\* OCR indices added to the used set before turn ti
UsedBefore(turns, ti) == {turns[k] : k \in {x \in 1..(ti - 1) : turns[x] # -1}}

\* C19: truth paragraphs take their turns in list order; a truth paragraph t
\* is a true positive iff at its turn some unused OCR paragraph o has
\* |len(t) - len(o)| / len(t) <= 0.10 and levenshteinDistance(t, o) /
\* max(len(t), len(o)) <= 0.10; the OCR paragraph then marked used has the
\* smallest normalized distance among the unused ones passing the length
\* filter, the lowest index winning ties; otherwise the used set is unchanged.
C19_GreedyBestMatch ==
    ParaDone =>
        LET truthParas == normalize(truth)
            ocrParas == normalize(ocr)
            turns == paraF1.loop.turns
        IN  /\ Len(turns) = Len(truthParas)
            /\ paraF1.loop.truePositives = Cardinality(AddingTurns(turns))
            /\ paraF1.loop.usedOcrIndices = UsedBefore(turns, Len(turns) + 1)
            /\ \A ti \in 1..Len(truthParas) :
                  LET t == truthParas[ti]
                      unused == (0..(Len(ocrParas) - 1)) \ UsedBefore(turns, ti)
                      cand == {o \in unused : PassesLengthFilter(t, ocrParas[o + 1])}
                      good == {o \in cand : WithinThreshold(t, ocrParas[o + 1])}
                  IN  /\ turns[ti] # -1 <=> good # {}
                      /\ good # {} =>
                          /\ turns[ti] \in cand
                          /\ \A o \in cand :
                                /\ ~Closer(t, ocrParas[o + 1], ocrParas[turns[ti] + 1])
                                /\ o < turns[ti] =>
                                      Closer(t, ocrParas[turns[ti] + 1], ocrParas[o + 1])

C19_Witness ==
    /\ pc = "done"
    /\ normalize(truth) = <<Rep("a", 10), Rep("a", 10)>>
    /\ normalize(ocr) = <<Rep("a", 9) \o <<"b">>, Rep("a", 10)>>
    /\ paraF1.loop.turns = <<1, 0>>

C19_WitnessUnmatched ==
    /\ pc = "done"
    /\ normalize(truth) = <<<<"a">>>>
    /\ normalize(ocr) = <<<<"b">>>>
    /\ paraF1.loop.turns = <<-1>>

\* The matching loop without the length pre-filter: at each turn the unused
\* OCR paragraph of smallest normalized distance (lowest index on ties) is
\* taken if it is within the threshold.  Returns the true positives.
BestUnused(t, ocrParas, unused) ==
    CHOOSE o \in unused :
        \A p \in unused :
            /\ ~Closer(t, ocrParas[p + 1], ocrParas[o + 1])
            /\ p < o => Closer(t, ocrParas[o + 1], ocrParas[p + 1])

RECURSIVE UnfilteredMatches(_, _, _, _)
UnfilteredMatches(truthParas, ocrParas, ti, used) ==
    IF ti > Len(truthParas) THEN Cardinality(used)
    ELSE LET unused == (0..(Len(ocrParas) - 1)) \ used
         IN  IF unused # {}
                /\ WithinThreshold(truthParas[ti],
                                   ocrParas[BestUnused(truthParas[ti], ocrParas, unused) + 1])
             THEN UnfilteredMatches(truthParas, ocrParas, ti + 1,
                                    used \cup {BestUnused(truthParas[ti], ocrParas, unused)})
             ELSE UnfilteredMatches(truthParas, ocrParas, ti + 1, used)

F1WithoutPrefilter(truthParas, ocrParas) ==
    IF Len(truthParas) = 0 THEN (IF Len(ocrParas) = 0 THEN Num(1) ELSE Num(0))
    ELSE Frac(2 * UnfilteredMatches(truthParas, ocrParas, 1, {}),
              Len(truthParas) + Len(ocrParas))

\* C20: the length pre-filter of calculateParagraphF1 is only an
\* optimization: every OCR paragraph it skips for a truth paragraph would
\* also fail the match threshold, so the returned F1 score is the one
\* obtained without the pre-filter.
C20_PrefilterIsOptimization ==
    ParaDone =>
        LET truthParas == normalize(truth)
            ocrParas == normalize(ocr)
        IN  /\ \A ti \in 1..Len(truthParas), k \in 1..Len(ocrParas) :
                  ~PassesLengthFilter(truthParas[ti], ocrParas[k])
                      => ~WithinThreshold(truthParas[ti], ocrParas[k])
            /\ paraF1.alg = F1WithoutPrefilter(truthParas, ocrParas)

(***************************************************************************)
(* Properties of interleaved invocations.                                  *)
(***************************************************************************)
\* What the scorer returns when it runs alone, start to end.
Alone(scorer, t, o) ==
    CASE scorer = "calculateCER" -> calculateCER(t, o)
      [] scorer = "calculateWERWithDiff" -> calculateWERWithDiff(t, o)
      [] scorer = "calculatePunctuationAccuracy" -> calculatePunctuationAccuracy(t, o)
      [] scorer = "calculateParagraphF1" -> calculateParagraphF1(t, o)

Returned(p) == pc = "calls" /\ calls[p].pc = "returned"

\* C17: the scorers share no mutable state: however the steps of two
\* invocations interleave, each returns exactly what the scorer returns
\* when run alone on its arguments, and two invocations of one scorer on
\* the same pair of texts return equal results.
C17_InterleavingIsInvisible ==
    /\ \A p \in Invocations :
          Returned(p) =>
              calls[p].result = Alone(calls[p].scorer, calls[p].truth, calls[p].ocr)
    /\ \A p, q \in Invocations :
          (/\ Returned(p) /\ Returned(q)
           /\ calls[p].scorer = calls[q].scorer
           /\ calls[p].truth = calls[q].truth
           /\ calls[p].ocr = calls[q].ocr)
              => calls[p].result = calls[q].result

C17_Witness ==
    /\ Returned(1) /\ Returned(2)
    /\ calls[1].overlapped /\ calls[2].overlapped
    /\ calls[1].scorer = "calculateCER"
    /\ calls[2].scorer = "calculateCER"
    /\ calls[1].truth = <<"a", ",", " ", "b">> /\ calls[1].ocr = <<"b">>
    /\ calls[2].truth = <<"b">> /\ calls[2].ocr = <<"a", ",", " ", "b">>
    /\ calls[1].result = Frac(2, 3)
    /\ calls[2].result = Num(2)

(***************************************************************************)
(* The two revisions of calculateWERWithDiff against each other.           *)
(***************************************************************************)
\* C21: for every pair of texts the backtrace's error count S + I + D equals
\* dp[m][n], which equals levenshteinDistance(truth words, OCR words); the
\* revision scoring from dp[m][n] and the revision scoring from the
\* backtrace counts return the same score and the same diff sequence.
C21_BacktraceCountIsDistance ==
    WerDone =>
        LET tWords == tokenize(truth)
            oWords == tokenize(ocr)
            dpmn == WerTable(tWords, oWords)[Len(tWords) + 1][Len(oWords) + 1].dp
            bd == wer.det.breakdown
        IN  /\ bd.s + bd.i + bd.d = dpmn
            /\ wer.det.numerator = bd.s + bd.i + bd.d
            /\ bd.s = CountType(wer.det.diffs, "substitution")
            /\ bd.i = CountType(wer.det.diffs, "insertion")
            /\ bd.d = CountType(wer.det.diffs, "deletion")
            /\ dpmn = levenshteinDistance(tWords, oWords)
            /\ wer.alg.wer = wer.det.score
            /\ wer.alg.diffs = wer.det.diffs

C21_Witness ==
    /\ pc = "done"
    /\ Len(tokenize(truth)) = 3
    /\ wer.det.breakdown.s >= 1
    /\ wer.det.breakdown.i >= 1
    /\ wer.det.numerator = 2
    /\ wer.alg.wer = Frac(2, 3)
    /\ levenshteinDistance(tokenize(truth), tokenize(ocr)) = 2

(***************************************************************************)
(* Properties of App.runAnalysis.                                          *)
(***************************************************************************)
\* The reads a run has to make: for every pair with both files, in pair
\* order, the truth file and then the OCR file.
RECURSIVE ExpectedReads(_, _)
ExpectedReads(pairs, i) ==
    IF i > Len(pairs) THEN <<>>
    ELSE IF IsComplete(pairs[i])
         THEN <<<<"readFile", "truth", i>>, <<"readFile", "ocr", i>>>>
                  \o ExpectedReads(pairs, i + 1)
         ELSE ExpectedReads(pairs, i + 1)

IsPrefix(s, t) == Len(s) <= Len(t) /\ s = SubSeq(t, 1, Len(s))

\* The results of the pairs with both files, in pair order.
ExpectedResults(pairs) ==
    LET complete == SelectSeq(pairs, IsComplete)
    IN  [k \in 1..Len(complete) |->
            AnalysisResult(complete[k], complete[k].truthFile.text,
                           complete[k].ocrFile.text)]

RunInProgress == pc = "app" /\ run.pc # "idle"

RunEnded == pc = "app" /\ run.pc = "idle" /\ run.runs > 0

C22_Reads ==
    /\ RunInProgress =>
        /\ isProcessing
        /\ results = run.previous
        /\ run.log # <<>>
        /\ IsPrefix(run.log, ExpectedReads(run.pairs, 1))
        /\ IsPrefix(run.newResults, ExpectedResults(run.pairs))
    /\ RunEnded =>
        /\ ~isProcessing
        /\ \/ /\ run.log = ExpectedReads(run.pairs, 1) \o <<<<"setResults">>>>
              /\ results = ExpectedResults(run.pairs)
              /\ error = Null
           \/ /\ \E n \in 1..Len(ExpectedReads(run.pairs, 1)) :
                    run.log = SubSeq(ExpectedReads(run.pairs, 1), 1, n) \o <<<<"setError">>>>
              /\ results = run.previous
              /\ error = "An error occurred while reading files."

C22_Publish ==
    results' # results =>
        /\ run'.pc = "idle"
        /\ run'.log[Len(run'.log)] = <<"setResults">>

\* C22: runAnalysis reads and scores the file pairs one at a time in pair
\* order, skipping the pairs that miss a file; the results state is replaced
\* once, after the last complete pair; when a read fails the results state
\* keeps its previous value and the error message is set; and whenever
\* isProcessing is true it is eventually reset to false.
C22_RunAnalysis ==
    /\ []C22_Reads
    /\ [][C22_Publish]_vars
    /\ (isProcessing ~> ~isProcessing)

C22_Witness ==
    /\ RunEnded
    /\ run.runs = 2
    /\ Len(run.pairs) = 2
    /\ ~IsComplete(run.pairs[2])
    /\ Len(results) = 1
    /\ results = run.previous
    /\ run.log = <<<<"readFile", "truth", 1>>, <<"readFile", "ocr", 1>>, <<"setError">>>>
    /\ error = "An error occurred while reading files."
    /\ ~isProcessing

C22_WitnessNoCompletePair ==
    /\ RunEnded
    /\ Len(run.pairs) = 1
    /\ run.log = <<<<"setResults">>>>
    /\ results = <<>>
    /\ ~isProcessing

====
